---- MODULE Spec2Model ----
(***************************************************************************)
(* PERT-Automation: the editable activity table (PERTTable.tsx) and the    *)
(* scheduling engine / graph builder of the flow diagram (calculatePERT    *)
(* and createNodesAndEdges).                                               *)
(*                                                                         *)
(* Representation.                                                         *)
(*  - A JavaScript string is a sequence of one-character strings, so that  *)
(*    toString, parseInt, the letters-only test and the edge ids are       *)
(*    computed and not assumed.  Str1("A") is the string "A".              *)
(*  - A JavaScript number is a record [k, v]: k = "num" with the value v,  *)
(*    or k = "nan" (parseInt of a text without digits).  The estimates are *)
(*    integers (parseInt).  mean, es, ef, ls, lf are exact rationals       *)
(*    stored in sixths of a time unit and variance in thirty-sixths, so    *)
(*    that the division by 6 of calculateMean / calculateVariance is       *)
(*    exact; floating-point rounding is not modelled.                      *)
(***************************************************************************)
EXTENDS Integers, Sequences, FiniteSets, TLC

VARIABLES
    activities,      \* PERTTable state `activities`; the input list of the engine
    error,           \* PERTTable state `error` ("null" or the message)
    created,         \* history: the ids handed to createNewActivity, in order
    pertActivities,  \* the array calculatePERT returned (<<>> before it ran)
    edges,           \* newEdges of createNodesAndEdges with the PERT pass
    diagramEdges,    \* newEdges of createNodesAndEdges of PERTFlowDiagram.tsx
    graphDone        \* the graph effect has run on `activities`

vars == <<activities, error, created, pertActivities, edges, diagramEdges, graphDone>>

----------------------------------------------------------------------------
(* Bounds *)

\* rows the table may hold
MaxRows == 2
\* activities created in one session (default row included)
MaxCreated == 3
\* largest estimate typed into a time field / drawn for an engine input
MaxTime == 1
\* longest activity list handed to the engine
MaxLen == 3
\* longest predecessors-first activity list handed to the engine
MaxSortedLen == 4
\* largest estimate of an activity of a predecessors-first list
MaxMean == 3

----------------------------------------------------------------------------
(* Numbers *)

Num(n) == [k |-> "num", v |-> n]

NaN == [k |-> "nan", v |-> 0]

IsNaN(x) == x.k = "nan"

Add(x, y) == IF IsNaN(x) \/ IsNaN(y) THEN NaN ELSE Num(x.v + y.v)

Sub(x, y) == IF IsNaN(x) \/ IsNaN(y) THEN NaN ELSE Num(x.v - y.v)

Mul(x, y) == IF IsNaN(x) \/ IsNaN(y) THEN NaN ELSE Num(x.v * y.v)

\* x < y of JavaScript: false as soon as one side is NaN
Less(x, y) == ~IsNaN(x) /\ ~IsNaN(y) /\ x.v < y.v

MathAbs(x) == IF IsNaN(x) THEN NaN ELSE Num(IF x.v < 0 THEN -x.v ELSE x.v)

\* Math.max(...s) / Math.min(...s) for a non-empty s: NaN if any argument is NaN
MathMax(s) ==
    IF \E i \in 1..Len(s) : IsNaN(s[i]) THEN NaN
    ELSE Num(CHOOSE m \in {s[i].v : i \in 1..Len(s)} :
                 \A i \in 1..Len(s) : s[i].v <= m)

MathMin(s) ==
    IF \E i \in 1..Len(s) : IsNaN(s[i]) THEN NaN
    ELSE Num(CHOOSE m \in {s[i].v : i \in 1..Len(s)} :
                 \A i \in 1..Len(s) : m <= s[i].v)

----------------------------------------------------------------------------
(* Strings *)

Str1(c) == <<c>>

DigitChars == <<"0", "1", "2", "3", "4", "5", "6", "7", "8", "9">>

Letters ==
    {"A", "B", "C", "D", "E", "F", "G", "H", "I", "J", "K", "L", "M",
     "N", "O", "P", "Q", "R", "S", "T", "U", "V", "W", "X", "Y", "Z",
     "a", "b", "c", "d", "e", "f", "g", "h", "i", "j", "k", "l", "m",
     "n", "o", "p", "q", "r", "s", "t", "u", "v", "w", "x", "y", "z"}

IsDigit(c) == \E d \in 1..10 : DigitChars[d] = c

DigitValue(c) == (CHOOSE d \in 1..10 : DigitChars[d] = c) - 1

\* Number.prototype.toString of a non-negative integer
RECURSIVE natToString(_)
natToString(n) ==
    IF n < 10 THEN Str1(DigitChars[n + 1])
    ELSE natToString(n \div 10) \o Str1(DigitChars[(n % 10) + 1])

toString(n) == IF n < 0 THEN Str1("-") \o natToString(-n) ELSE natToString(n)

\* the value of the leading digits of s, acc being the value read so far
RECURSIVE digitsValue(_, _)
digitsValue(s, acc) ==
    IF s = <<>> \/ ~IsDigit(Head(s)) THEN acc
    ELSE digitsValue(Tail(s), acc * 10 + DigitValue(Head(s)))

\* parseInt(s): an optional sign, then the leading digits; NaN without a digit
parseInt(s) ==
    LET neg == s # <<>> /\ Head(s) = "-"
        body == IF s # <<>> /\ Head(s) \in {"-", "+"} THEN Tail(s) ELSE s
    IN  IF body = <<>> \/ ~IsDigit(Head(body)) THEN NaN
        ELSE Num(IF neg THEN -digitsValue(body, 0) ELSE digitsValue(body, 0))

\* /^[A-Za-z]*$/.test(s)
lettersOnly(s) == \A i \in 1..Len(s) : s[i] \in Letters

\* Array.prototype.includes
includes(s, x) == \E i \in 1..Len(s) : s[i] = x

\* Array.prototype.filter by equality: s.filter(e => e !== x)
RECURSIVE without(_, _)
without(s, x) ==
    IF s = <<>> THEN <<>>
    ELSE IF Head(s) = x THEN without(Tail(s), x)
    ELSE <<Head(s)>> \o without(Tail(s), x)

----------------------------------------------------------------------------
(* PERTTable.tsx: the activity table *)

TimeFields == {"optimisticTime", "mostLikelyTime", "pessimisticTime"}

LettersError == "Activities can only contain letters."

NegativeError == "Time values must be non-negative."

createNewActivity(id) ==
    [id |-> id, activity |-> <<>>, predecessors |-> <<>>,
     optimisticTime |-> Num(0), mostLikelyTime |-> Num(0),
     pessimisticTime |-> Num(0), mean |-> Num(0), variance |-> Num(0)]

\* (o + 4 m + p) / 6, in sixths
calculateMean(a) ==
    Add(Add(a.optimisticTime, Mul(Num(4), a.mostLikelyTime)), a.pessimisticTime)

\* ((p - o) / 6) ^ 2, in thirty-sixths
calculateVariance(a) ==
    Mul(Sub(a.pessimisticTime, a.optimisticTime),
        Sub(a.pessimisticTime, a.optimisticTime))

\* updatedRow without the recomputation of the derived fields
updatedRowStale(activity, field, value) ==
    LET updatedActivity == [activity EXCEPT ![field] = value]
    IN  IF field = "activity" /\ ~lettersOnly(value) THEN activity
        ELSE IF field \in TimeFields /\ Less(value, Num(0)) THEN activity
        ELSE updatedActivity

\* the row updateActivity's map callback returns for the row with the edited id
updatedRow(activity, field, value) ==
    LET updatedActivity == [activity EXCEPT ![field] = value]
    IN  IF field = "activity" /\ ~lettersOnly(value) THEN activity
        ELSE IF field \in TimeFields /\ Less(value, Num(0)) THEN activity
        ELSE [updatedActivity EXCEPT
                 !.mean = calculateMean(updatedActivity),
                 !.variance = calculateVariance(updatedActivity)]

\* the value setError receives in the map callback
updatedError(field, value) ==
    IF field = "activity" /\ ~lettersOnly(value) THEN LettersError
    ELSE IF field \in TimeFields /\ Less(value, Num(0)) THEN NegativeError
    ELSE "null"

hasRow(id) == \E i \in 1..Len(activities) : activities[i].id = id

graphIdle == UNCHANGED <<pertActivities, edges, diagramEdges, graphDone>>

updateActivity(id, field, value) ==
    /\ hasRow(id)
    /\ activities' = [i \in 1..Len(activities) |->
                         IF activities[i].id = id
                         THEN updatedRow(activities[i], field, value)
                         ELSE activities[i]]
    /\ error' = updatedError(field, value)
    /\ UNCHANGED created
    /\ graphIdle

\* Math.max(...activities.map(a => parseInt(a.id)), 0) + 1, as a string
newId(acts) ==
    toString(MathMax(<<Num(0)>> \o [i \in 1..Len(acts) |-> parseInt(acts[i].id)]).v + 1)

addNewRow ==
    /\ Len(activities) < MaxRows
    /\ Len(created) < MaxCreated
    /\ activities' = Append(activities, createNewActivity(newId(activities)))
    /\ created' = Append(created, newId(activities))
    /\ UNCHANGED error
    /\ graphIdle

deleteRow(id) ==
    /\ hasRow(id)
    /\ activities' = SelectSeq(activities, LAMBDA a : a.id # id)
    /\ UNCHANGED <<error, created>>
    /\ graphIdle

----------------------------------------------------------------------------
(* calculatePERT: forward pass, backward pass, critical path *)

\* 0.001 of a time unit is 1 / ToleranceDen; a time unit is SixthsPerUnit sixths
ToleranceDen == 1000

SixthsPerUnit == 6

\* Math.abs(x) < 0.001 for x in sixths
belowTolerance(x) == ~IsNaN(x) /\ MathAbs(x).v * ToleranceDen < SixthsPerUnit

\* Array.prototype.find by name: the index of the first match, 0 for undefined
find(arr, name) ==
    IF \E i \in 1..Len(arr) : arr[i].activity = name
    THEN CHOOSE i \in 1..Len(arr) :
             /\ arr[i].activity = name
             /\ \A j \in 1..(i - 1) : arr[j].activity # name
    ELSE 0

\* Array.prototype.reverse
reverse(arr) == [i \in 1..Len(arr) |-> arr[Len(arr) + 1 - i]]

\* activities.map(activity => ({...activity, es: 0, ...}))
toPertActivity(a) ==
    [id |-> a.id, activity |-> a.activity, predecessors |-> a.predecessors,
     optimisticTime |-> a.optimisticTime, mostLikelyTime |-> a.mostLikelyTime,
     pessimisticTime |-> a.pessimisticTime, mean |-> a.mean, variance |-> a.variance,
     es |-> Num(0), ef |-> Num(0), ls |-> Num(0), lf |-> Num(0), isCritical |-> FALSE]

\* forwardStep with es taken from the first predecessor only
forwardStepFirstOnly(arr, i) ==
    LET activity == arr[i]
        predEF(pred) ==
            LET predActivity == find(arr, pred)
            IN  IF predActivity # 0 THEN arr[predActivity].ef ELSE Num(0)
        es == IF Len(activity.predecessors) = 0 THEN Num(0)
              ELSE predEF(activity.predecessors[1])
    IN  [arr EXCEPT ![i].es = es, ![i].ef = Add(es, activity.mean)]

\* the body of the forward forEach for the element at index i
forwardStep(arr, i) ==
    LET activity == arr[i]
        predEF(pred) ==
            LET predActivity == find(arr, pred)
            IN  IF predActivity # 0 THEN arr[predActivity].ef ELSE Num(0)
        es == IF Len(activity.predecessors) = 0 THEN Num(0)
              ELSE MathMax([j \in 1..Len(activity.predecessors) |->
                               predEF(activity.predecessors[j])])
    IN  [arr EXCEPT ![i].es = es, ![i].ef = Add(es, activity.mean)]

RECURSIVE forwardPass(_, _)
forwardPass(arr, i) ==
    IF i > Len(arr) THEN arr ELSE forwardPass(forwardStep(arr, i), i + 1)

\* backwardStep with ls taken from the lf the element had before the step
backwardStepStale(arr, maxEF, i) ==
    LET activity == arr[i]
        successors == SelectSeq(arr, LAMBDA a : includes(a.predecessors, activity.activity))
        lf == IF \A j \in 1..Len(arr) : ~includes(arr[j].predecessors, activity.activity)
              THEN maxEF
              ELSE MathMin([j \in 1..Len(successors) |-> successors[j].ls])
    IN  [arr EXCEPT ![i].lf = lf, ![i].ls = Sub(activity.lf, activity.mean)]

\* the body of the backward forEach for the element at index i of the reversed array
backwardStep(arr, maxEF, i) ==
    LET activity == arr[i]
        successors == SelectSeq(arr, LAMBDA a : includes(a.predecessors, activity.activity))
        lf == IF \A j \in 1..Len(arr) : ~includes(arr[j].predecessors, activity.activity)
              THEN maxEF
              ELSE MathMin([j \in 1..Len(successors) |-> successors[j].ls])
    IN  [arr EXCEPT ![i].lf = lf, ![i].ls = Sub(lf, activity.mean)]

RECURSIVE backwardPass(_, _, _)
backwardPass(arr, maxEF, i) ==
    IF i > Len(arr) THEN arr ELSE backwardPass(backwardStep(arr, maxEF, i), maxEF, i + 1)

criticalPass(arr) ==
    [i \in 1..Len(arr) |->
        [arr[i] EXCEPT !.isCritical =
            /\ belowTolerance(Sub(arr[i].es, arr[i].ls))
            /\ belowTolerance(Sub(arr[i].ef, arr[i].lf))]]

\* the array calculatePERT returns for a non-empty list: it was reversed in place
\* by the backward pass and is returned in that order
calculatePERT(acts) ==
    LET forward == forwardPass([i \in 1..Len(acts) |-> toPertActivity(acts[i])], 1)
        maxEF == MathMax([i \in 1..Len(forward) |-> forward[i].ef])
    IN  criticalPass(backwardPass(reverse(forward), maxEF, 1))

----------------------------------------------------------------------------
(* createNodesAndEdges: the edges handed to the layout *)

StartId == <<"s", "t", "a", "r", "t">>

EndId == <<"e", "n", "d">>

Dash == Str1("-")

\* the edges the "Create edges" forEach pushes for the element at index i;
\* critical[k] is element k's isCritical, read by the animated flag
activityEdges(arr, i, critical) ==
    LET activity == arr[i]
        preds == activity.predecessors
        resolved == SelectSeq(preds, LAMBDA predecessor : find(arr, predecessor) # 0)
    IN  IF Len(preds) > 0
        THEN [j \in 1..Len(resolved) |->
                 LET sourceActivity == find(arr, resolved[j])
                 IN  [id |-> arr[sourceActivity].id \o Dash \o activity.id,
                      source |-> arr[sourceActivity].id,
                      target |-> activity.id,
                      animated |-> critical[i] /\ critical[sourceActivity]]]
        ELSE <<[id |-> StartId \o Dash \o activity.id,
                source |-> StartId,
                target |-> activity.id,
                animated |-> critical[i]]>>

RECURSIVE createEdges(_, _, _)
createEdges(arr, i, critical) ==
    IF i > Len(arr) THEN <<>>
    ELSE activityEdges(arr, i, critical) \o createEdges(arr, i + 1, critical)

\* the edges the "no successors" forEach pushes
RECURSIVE endEdges(_, _, _)
endEdges(arr, i, critical) ==
    IF i > Len(arr) THEN <<>>
    ELSE LET activity == arr[i]
             hasSuccessor == \E j \in 1..Len(arr) : includes(arr[j].predecessors, activity.activity)
         IN  (IF ~hasSuccessor
              THEN <<[id |-> activity.id \o Dash \o EndId, source |-> activity.id,
                      target |-> EndId, animated |-> critical[i]]>>
              ELSE <<>>) \o endEdges(arr, i + 1, critical)

\* newEdges of the flow diagram that runs calculatePERT first: built from the
\* array pert that calculatePERT returned
pertEdges(pert) ==
    LET critical == [k \in 1..Len(pert) |-> pert[k].isCritical]
    IN  createEdges(pert, 1, critical) \o endEdges(pert, 1, critical)

\* newEdges of PERTFlowDiagram.tsx, built from the activities as given; its edges
\* carry id, source and target only
plainEdges(acts) ==
    LET critical == [k \in 1..Len(acts) |-> FALSE]
        all == createEdges(acts, 1, critical) \o endEdges(acts, 1, critical)
    IN  [e \in 1..Len(all) |->
            [id |-> all[e].id, source |-> all[e].source, target |-> all[e].target]]

\* the caller's array after a call in which the passes reverse it in place
activitiesReversedInPlace(acts) == reverse(acts)

\* the caller's array after calculatePERT(acts): activities.map builds a new array
\* of new objects, and the forEach writes and the reverse go to that array only
activitiesAfterCalculatePERT(acts) == acts

\* the graph effect: createNodesAndEdges on the current activities
updateGraph ==
    /\ ~graphDone
    /\ pertActivities' = calculatePERT(activities)
    /\ edges' = pertEdges(pertActivities')
    /\ diagramEdges' = plainEdges(activities)
    /\ graphDone' = TRUE
    /\ activities' = activitiesAfterCalculatePERT(activities)
    /\ UNCHANGED <<error, created>>

----------------------------------------------------------------------------
(* PERTTable.tsx: the call sites of the handlers (the rendered table) *)

\* texts typed into the name field
NameTexts == {<<>>, Str1("A"), <<"A", "1">>}

\* texts a number field delivers as e.target.value ("" when it is cleared)
TimeTexts ==
    {<<>>} \cup {toString(n) : n \in 0..MaxTime} \cup {toString(-n) : n \in 1..MaxTime}

Init ==
    /\ activities = <<createNewActivity(Str1("1"))>>
    /\ error = "null"
    /\ created = <<Str1("1")>>
    /\ pertActivities = <<>>
    /\ edges = <<>>
    /\ diagramEdges = <<>>
    /\ graphDone = FALSE

AddRow == addNewRow

DeleteRow == \E i \in 1..Len(activities) : deleteRow(activities[i].id)

EditName ==
    \E i \in 1..Len(activities), text \in NameTexts :
        updateActivity(activities[i].id, "activity", text)

SelectNone ==
    \E i \in 1..Len(activities) :
        updateActivity(activities[i].id, "predecessors", <<>>)

\* the checkbox of row j's name in the dropdown of row i
TogglePredecessor ==
    \E i \in 1..Len(activities), j \in 1..Len(activities) :
        LET activity == activities[i]
            a == activities[j]
            checked == ~includes(activity.predecessors, a.activity)
            newPredecessors ==
                IF checked THEN Append(activity.predecessors, a.activity)
                ELSE without(activity.predecessors, a.activity)
        IN  /\ a.id # activity.id
            /\ a.activity # <<>>
            /\ updateActivity(activity.id, "predecessors", newPredecessors)

EditTime ==
    \E i \in 1..Len(activities), field \in TimeFields, text \in TimeTexts :
        updateActivity(activities[i].id, field, parseInt(text))

\* updateActivity aimed at a derived field (keyof Activity admits it)
EditDerived ==
    \E i \in 1..Len(activities), field \in {"mean", "variance"}, n \in 0..MaxTime :
        updateActivity(activities[i].id, field, Num(n + 1))

Next ==
    \/ AddRow
    \/ DeleteRow
    \/ EditName
    \/ SelectNone
    \/ TogglePredecessor
    \/ EditTime
    \/ EditDerived

Spec == Init /\ [][Next]_vars

----------------------------------------------------------------------------
(* The engine on every activity list within the bounds *)

EngineNames == {Str1("A"), Str1("B")}

EnginePredecessors == {<<>>, <<Str1("A")>>, <<Str1("B")>>, <<Str1("A"), Str1("B")>>}

\* an activity as the table holds it: three equal estimates t, so mean = t
engineActivity(i, name, preds, t) ==
    LET a == [createNewActivity(toString(i)) EXCEPT
                 !.activity = name, !.predecessors = preds,
                 !.optimisticTime = Num(t), !.mostLikelyTime = Num(t),
                 !.pessimisticTime = Num(t)]
    IN  [a EXCEPT !.mean = calculateMean(a), !.variance = calculateVariance(a)]

InitPERT ==
    /\ \E n \in 1..MaxLen :
         \E names \in [1..n -> EngineNames],
            preds \in [1..n -> EnginePredecessors],
            times \in [1..n -> 0..MaxTime] :
             activities = [i \in 1..n |-> engineActivity(i, names[i], preds[i], times[i])]
    /\ error = "null"
    /\ created = <<>>
    /\ pertActivities = <<>>
    /\ edges = <<>>
    /\ diagramEdges = <<>>
    /\ graphDone = FALSE

NextPERT == updateGraph

SpecPERT == InitPERT /\ [][NextPERT]_vars

----------------------------------------------------------------------------
(* The engine on every predecessors-first activity list within the bounds *)

\* the name of the activity at position i: all different
SortedLetters == <<"A", "B", "C", "D", "E", "F", "G", "H">>

\* bit j of code selects the activity at position j as a predecessor
codeBit(code, j) == (code \div (2 ^ (j - 1))) % 2 = 1

\* the predecessor list of the activity at position i: names of earlier positions
sortedPredecessors(i, code) ==
    LET picked == SelectSeq([j \in 1..(i - 1) |-> j], LAMBDA j : codeBit(code, j))
    IN  [x \in 1..Len(picked) |-> Str1(SortedLetters[picked[x]])]

InitSorted ==
    /\ \E n \in 1..MaxSortedLen :
         \E codes \in [1..n -> 0..((2 ^ (n - 1)) - 1)] :
            /\ \A i \in 1..n : codes[i] < 2 ^ (i - 1)
            /\ \E times \in [1..n -> 0..MaxMean] :
                  activities = [i \in 1..n |->
                      engineActivity(i, Str1(SortedLetters[i]),
                                     sortedPredecessors(i, codes[i]), times[i])]
    /\ error = "null"
    /\ created = <<>>
    /\ pertActivities = <<>>
    /\ edges = <<>>
    /\ diagramEdges = <<>>
    /\ graphDone = FALSE

SpecSorted == InitSorted /\ [][NextPERT]_vars

----------------------------------------------------------------------------
(* The reference schedule of an activity list (critical path method) *)

SetMax(S) == CHOOSE m \in S : \A x \in S : x <= m

SetMin(S) == CHOOSE m \in S : \A x \in S : m <= x

\* the activities (indices) the predecessor names of activity i resolve to
resolvedPredecessors(acts, i) ==
    {find(acts, acts[i].predecessors[j]) : j \in 1..Len(acts[i].predecessors)} \ {0}

directSuccessors(acts, i) ==
    {j \in 1..Len(acts) : i \in resolvedPredecessors(acts, j)}

\* the activities reachable from the set S along at most k dependency edges
RECURSIVE reachable(_, _, _)
reachable(acts, S, k) ==
    IF k = 0 THEN S
    ELSE reachable(acts, S \cup UNION {directSuccessors(acts, i) : i \in S}, k - 1)

Acyclic(acts) ==
    \A i \in 1..Len(acts) :
        i \notin reachable(acts, directSuccessors(acts, i), Len(acts))

UniqueNames(acts) ==
    \A i, j \in 1..Len(acts) :
        /\ acts[i].activity # <<>>
        /\ (i # j => acts[i].activity # acts[j].activity)

NonNegativeMeans(acts) ==
    \A i \in 1..Len(acts) : ~IsNaN(acts[i].mean) /\ acts[i].mean.v >= 0

\* B is a predecessor of A and A is a predecessor of B
MutualCycle(acts) ==
    \E i, j \in 1..Len(acts) :
        /\ i # j
        /\ j \in resolvedPredecessors(acts, i)
        /\ i \in resolvedPredecessors(acts, j)

RECURSIVE RefEF(_, _)
RefES(acts, i) ==
    IF resolvedPredecessors(acts, i) = {} THEN 0
    ELSE SetMax({RefEF(acts, p) : p \in resolvedPredecessors(acts, i)})

RefEF(acts, i) == RefES(acts, i) + acts[i].mean.v

RefDuration(acts) == SetMax({RefEF(acts, i) : i \in 1..Len(acts)})

RECURSIVE RefLS(_, _)
RefLF(acts, i) ==
    IF directSuccessors(acts, i) = {} THEN RefDuration(acts)
    ELSE SetMin({RefLS(acts, j) : j \in directSuccessors(acts, i)})

RefLS(acts, i) == RefLF(acts, i) - acts[i].mean.v

\* the index in the input list of the activity a result entry was copied from
inputIndex(entry) == CHOOSE i \in 1..Len(activities) : activities[i].id = entry.id

dependencyEdges(es) ==
    {es[e] : e \in {x \in 1..Len(es) : es[x].source # StartId /\ es[x].target # EndId}}

----------------------------------------------------------------------------
(* Claims *)

\* C1: for unique non-empty names, non-negative means and an acyclic graph,
\* in whatever order the activities are listed, every activity of the result
\* carries the reference ES, EF, LS and LF.
C1_ReferenceScheduleAnyOrder ==
    (graphDone /\ UniqueNames(activities) /\ NonNegativeMeans(activities)
        /\ Acyclic(activities))
    => \A k \in 1..Len(pertActivities) :
          LET i == inputIndex(pertActivities[k])
          IN  /\ pertActivities[k].es = Num(RefES(activities, i))
              /\ pertActivities[k].ef = Num(RefEF(activities, i))
              /\ pertActivities[k].ls = Num(RefLS(activities, i))
              /\ pertActivities[k].lf = Num(RefLF(activities, i))

\* C2: with non-negative means, every activity of the result has ES <= LS
\* and EF <= LF.
C2_SlackNeverNegative ==
    (graphDone /\ NonNegativeMeans(activities))
    => \A k \in 1..Len(pertActivities) :
          /\ pertActivities[k].es.v <= pertActivities[k].ls.v
          /\ pertActivities[k].ef.v <= pertActivities[k].lf.v

\* C3: when A lists B and B lists A as a predecessor, calculatePERT produces
\* no schedule entry for any activity.
C3_CycleGivesNoSchedule ==
    (graphDone /\ MutualCycle(activities)) => pertActivities = <<>>

\* C4: for a non-empty list with an acyclic resolved dependency graph
\* (dangling and duplicate names allowed), max EF equals max LF in the result.
C4_MaxEFEqualsMaxLF ==
    (graphDone /\ Len(activities) > 0 /\ NonNegativeMeans(activities)
        /\ Acyclic(activities))
    => SetMax({pertActivities[k].ef.v : k \in 1..Len(pertActivities)})
         = SetMax({pertActivities[k].lf.v : k \in 1..Len(pertActivities)})

\* C5: every activity none of whose predecessor names resolves (an empty
\* list, or only dangling names) has an edge start -> activity.
C5_RootsHangOffStart ==
    graphDone
    => \A i \in 1..Len(activities) :
          resolvedPredecessors(activities, i) = {}
          => \E e \in 1..Len(edges) :
                edges[e].source = StartId /\ edges[e].target = activities[i].id

\* C6: every dependency edge, of either graph builder, starts at the first
\* activity in input order that carries the predecessor's name (the activity
\* whose EF the forward pass read).
C6_EdgesStartAtFirstMatch ==
    graphDone
    => \A e \in dependencyEdges(edges) \cup dependencyEdges(diagramEdges) :
          \E i \in 1..Len(activities) :
             /\ activities[i].id = e.target
             /\ \E j \in 1..Len(activities[i].predecessors) :
                   LET first == find(activities, activities[i].predecessors[j])
                   IN  first # 0 /\ activities[first].id = e.source

\* C7: no id handed to a new activity was handed out before in the session.
C7_IdsNeverReused ==
    \A i, j \in 1..Len(created) : i # j => created[i] # created[j]

\* C8: every activity of the table has mean = (o + 4 m + p) / 6 and
\* variance = ((p - o) / 6) ^ 2 (NaN where an estimate it reads is NaN).
C8_MeanAndVarianceDerived ==
    \A i \in 1..Len(activities) :
        LET a == activities[i]
            o == a.optimisticTime
            m == a.mostLikelyTime
            p == a.pessimisticTime
        IN  /\ a.mean = IF "nan" \in {o.k, m.k, p.k} THEN NaN
                        ELSE Num(o.v + 4 * m.v + p.v)
            /\ a.variance = IF "nan" \in {o.k, p.k} THEN NaN
                            ELSE Num((p.v - o.v) * (p.v - o.v))

\* C8 witness: after accepted edits an activity has a positive mean and
\* variance, and the last edit was rejected.
C8_Witness ==
    /\ error = NegativeError
    /\ \E i \in 1..Len(activities) :
          /\ activities[i].mean.k = "num" /\ activities[i].mean.v > 0
          /\ activities[i].variance.k = "num" /\ activities[i].variance.v > 0

\* C9: every estimate of every activity of the table is a non-negative number.
C9_EstimatesNonNegative ==
    \A i \in 1..Len(activities) : \A f \in TimeFields :
        activities[i][f].k = "num" /\ activities[i][f].v >= 0

\* C10: every activity of the result has EF = ES + mean and LS = LF - mean.
C10_FinishIsStartPlusMean ==
    graphDone
    => \A k \in 1..Len(pertActivities) :
          LET a == pertActivities[k]
          IN  /\ {a.es.k, a.ef.k, a.ls.k, a.lf.k} = {"num"}
              /\ a.ef.v = a.es.v + a.mean.v
              /\ a.ls.v = a.lf.v - a.mean.v

\* C10 witness: a schedule computed on a cyclic list, with a positive ES and
\* a negative LS.
C10_Witness ==
    /\ graphDone
    /\ MutualCycle(activities)
    /\ \E k \in 1..Len(pertActivities) :
          /\ pertActivities[k].mean.v > 0
          /\ pertActivities[k].es.v > 0
    /\ \E k \in 1..Len(pertActivities) : pertActivities[k].ls.v < 0

PredecessorsFirst(acts) ==
    \A i \in 1..Len(acts) : \A p \in resolvedPredecessors(acts, i) : p < i

\* the diamond A -> {B, C} -> D with means 1, 2, 3, 1
Diamond ==
    <<engineActivity(1, Str1("A"), <<>>, 1),
      engineActivity(2, Str1("B"), <<Str1("A")>>, 2),
      engineActivity(3, Str1("C"), <<Str1("A")>>, 3),
      engineActivity(4, Str1("D"), <<Str1("B"), Str1("C")>>, 1)>>

criticalNames(pert) ==
    {pert[k].activity : k \in {x \in 1..Len(pert) : pert[x].isCritical}}

\* C12: on a list with unique names, an acyclic graph and every resolved
\* predecessor earlier than its successor, every activity of the result carries
\* the reference ES, EF, LS and LF and is critical exactly when its slack is
\* zero; on the diamond D has ES 4 and EF 5 and exactly A, C, D are critical.
C12_SortedListGetsReferenceSchedule ==
    (graphDone /\ UniqueNames(activities) /\ Acyclic(activities)
        /\ PredecessorsFirst(activities))
    => /\ \A k \in 1..Len(pertActivities) :
             LET i == inputIndex(pertActivities[k])
             IN  /\ pertActivities[k].es = Num(RefES(activities, i))
                 /\ pertActivities[k].ef = Num(RefEF(activities, i))
                 /\ pertActivities[k].ls = Num(RefLS(activities, i))
                 /\ pertActivities[k].lf = Num(RefLF(activities, i))
                 /\ pertActivities[k].isCritical
                      <=> (RefLS(activities, i) = RefES(activities, i))
       /\ activities = Diamond
          => /\ \E k \in 1..Len(pertActivities) :
                   /\ pertActivities[k].activity = Str1("D")
                   /\ pertActivities[k].es = Num(4 * SixthsPerUnit)
                   /\ pertActivities[k].ef = Num(5 * SixthsPerUnit)
             /\ criticalNames(pertActivities) = {Str1("A"), Str1("C"), Str1("D")}

\* C12 witness: the schedule of the diamond, in which B has slack.
C12_Witness ==
    /\ graphDone
    /\ activities = Diamond
    /\ \E k \in 1..Len(pertActivities) :
          /\ pertActivities[k].activity = Str1("B")
          /\ ~pertActivities[k].isCritical
          /\ pertActivities[k].ls.v > pertActivities[k].es.v

\* C13: no activity of the table lists its own name among its predecessors.
C13_NoSelfDependency ==
    \A i \in 1..Len(activities) :
        ~includes(activities[i].predecessors, activities[i].activity)

====
